---- MODULE Spec2Model ----
(***************************************************************************)
(* Model of the account-settings page (src/pages/settings.tsx): the        *)
(* server-side gate that answers the request, the form state kept by       *)
(* useForm, the staged file, and every run of onSubmit with                *)
(* its three awaited network calls (getPresignedUrl, fetch PUT,            *)
(* updateUser).  Strings are sequences of characters (names, MIME types)   *)
(* or of tokens (URLs), so that length checks, substring search and the    *)
(* template-literal concatenation are computed, not assumed.               *)
(***************************************************************************)
EXTENDS Integers, Sequences, FiniteSets, TLC

VARIABLES
    session,       \* the request's session: <<>> or <<user record>>
    response,      \* what getServerSideProps returned: <<>> (not yet) or <<result>>
    user,          \* the page's input property (props.user), <<>> before render
    formValues,    \* useForm's current values {name, description, image}
    errors,        \* formState.errors: per field <<>> or <<message>>
    isSubmitting,  \* formState.isSubmitting
    submitCount,   \* formState.submitCount (isSubmitted is submitCount > 0)
    selectedFile,  \* useState<File | undefined>: <<>> or <<file>>
    runs,          \* activations of onSubmit by click number: the ones in
                   \* progress and the last one that returned, each with the
                   \* network calls and notifications it made
    selectedSince, \* a file-selection event happened since onSubmit last started
    updateCalls,   \* number of calls made to the update endpoint so far
    stagedIsLatest \* selectedFile holds what the most recent file-selection
                   \* event carried (nothing, before any event)

vars == <<session, response, user, formValues, errors, isSubmitting, submitCount,
          selectedFile, runs, selectedSince, updateCalls, stagedIsLatest>>

----------------------------------------------------------------------------
(* Bounds *)

MaxSubmits == 2
MaxNameLen == 14

----------------------------------------------------------------------------
(* Strings *)

RECURSIVE Rep(_)
Rep(n) == IF n = 0 THEN <<>> ELSE Append(Rep(n - 1), "x")

\* String.prototype.indexOf: first 0-based position of sub in s, or -1
indexOf(s, sub) ==
    LET hits == {i \in 0..(Len(s) - Len(sub)) :
                    SubSeq(s, i + 1, i + Len(sub)) = sub}
    IN IF hits = {} THEN -1
       ELSE CHOOSE i \in hits : \A j \in hits : i <= j

Alice == <<"A", "l", "i", "c", "e">>
Hi == <<"H", "i">>
NameLimit == 13
Names == {Alice} \cup {Rep(n) : n \in {0, NameLimit, MaxNameLen}}
Descriptions == {<<>>, Hi}

ImageWord == <<"i", "m", "a", "g", "e">>
ImageJpeg == <<"i", "m", "a", "g", "e", "/", "j", "p", "e", "g">>
ImagePng == <<"i", "m", "a", "g", "e", "/", "p", "n", "g">>
TextPlain == <<"t", "e", "x", "t", "/", "p", "l", "a", "i", "n">>
AppPdf == <<"a", "p", "p", "l", "i", "c", "a", "t", "i", "o", "n", "/", "p", "d", "f">>

\* URLs are token sequences; the first token of an absolute URL is a scheme
Schemes == {"https:", "http:"}
ExistingImage == <<"https:", "//", "lh3.example", "/", "old-avatar">>
RelativeImage == <<"avatar.png">>
UserImages == {ExistingImage, RelativeImage}
NEXT_PUBLIC_BUCKET_URL == <<"https:", "//", "bucket.example">>

----------------------------------------------------------------------------
(* Inputs *)

KB == 1024
SizeLimitKB == 5120

Files == {
    [id |-> 1, name |-> <<"a.jpg">>, type |-> ImageJpeg, size |-> 2 * KB * KB],
    [id |-> 2, name |-> <<"b.png">>, type |-> ImagePng, size |-> SizeLimitKB * KB],
    [id |-> 3, name |-> <<"c.png">>, type |-> ImagePng, size |-> SizeLimitKB * KB + 1],
    [id |-> 4, name |-> <<"d.txt">>, type |-> TextPlain, size |-> 1000],
    [id |-> 5, name |-> <<"e.txt">>, type |-> TextPlain, size |-> 0],
    [id |-> 6, name |-> <<"f.pdf">>, type |-> AppPdf, size |-> 6 * KB * KB],
    [id |-> 7, name |-> <<"g.png">>, type |-> ImagePng, size |-> 0] }

\* event.target.files: empty (dialog cancelled) or one file
FileEvents == {<<>>} \cup {<<f>> : f \in Files}

Keys == {<<"k1">>, <<"k2">>}
Tickets == {[url |-> <<"https:", "//", "s3.example", "/">> \o k \o <<"?sig">>,
             key |-> k] : k \in Keys}

\* a fetch() that resolves carries a Response whose ok flag is not read
Responses == {[ok |-> TRUE], [ok |-> FALSE]}

----------------------------------------------------------------------------
(* Form state *)

NoError == <<>>
NoErrors == [name |-> NoError, description |-> NoError, image |-> NoError]

\* z.string().url(): the value parses as an absolute URL
IsUrl(s) == Len(s) >= 2 /\ s[1] \in Schemes

\* the zod schema, first issue per field (zodResolver's default criteria)
nameError_offByOne(n) ==
    IF Len(n) < 1 THEN <<"Username is required.">>
    ELSE IF Len(n) >= NameLimit THEN <<"Username must be 13 characters or less.">>
    ELSE NoError

nameError(n) ==
    IF Len(n) < 1 THEN <<"Username is required.">>
    ELSE IF Len(n) > NameLimit THEN <<"Username must be 13 characters or less.">>
    ELSE NoError

imageSchemaError(s) == IF IsUrl(s) THEN NoError ELSE <<"Invalid url">>

resolver(values) ==
    [name |-> nameError(values.name),
     description |-> NoError,
     image |-> imageSchemaError(values.image)]

thereAreErrors_noImage ==
    errors.description # NoError \/ errors.name # NoError

thereAreErrors ==
    errors.description # NoError \/ errors.image # NoError \/ errors.name # NoError

submitDisabled_errorsOnly == thereAreErrors

\* the disabled attribute of the submit input
submitDisabled == isSubmitting \/ thereAreErrors

\* the disabled attribute of the name, description and file inputs
inputsDisabled == isSubmitting

isSubmitted == submitCount > 0

Users == [name : {Alice}, description : {Hi}, image : UserImages]

\* where visitors without a session are sent
LoginDestination == <<"/", "login">>

\* the auth helper: no session gives a redirect destination, a session
\* gives the user record
useAuth(s) ==
    IF s = <<>>
    THEN [redirectDestination |-> <<LoginDestination>>, user |-> <<>>]
    ELSE [redirectDestination |-> <<>>, user |-> s]

\* the page has been rendered with props
rendered == response # <<>> /\ response[1].props # <<>>

Init ==
    /\ session \in {<<>>} \cup {<<u>> : u \in Users}
    /\ response = <<>>
    /\ user = <<>>
    /\ formValues = <<>>
    /\ updateCalls = 0
    /\ stagedIsLatest = TRUE
    /\ errors = NoErrors
    /\ isSubmitting = FALSE
    /\ submitCount = 0
    /\ selectedFile = <<>>
    /\ runs = <<>>
    /\ selectedSince = FALSE

----------------------------------------------------------------------------
(* The server-side gate and the first render *)

\* useForm's defaultValues
defaultValues(u) ==
    [name |-> u.name, description |-> u.description, image |-> u.image]

getServerSideProps_permanent ==
    /\ response = <<>>
    /\ IF useAuth(session).redirectDestination # <<>>
       THEN /\ response' = <<[redirect |-> <<[destination |-> useAuth(session).redirectDestination[1],
                                              permanent |-> TRUE]>>,
                              props |-> <<>>]>>
            /\ UNCHANGED <<user, formValues>>
       ELSE /\ response' = <<[redirect |-> <<>>,
                              props |-> <<[user |-> useAuth(session).user[1]]>>]>>
            /\ user' = useAuth(session).user[1]
            /\ formValues' = defaultValues(user')
    /\ UNCHANGED <<session, errors, isSubmitting, submitCount, selectedFile, runs,
                   selectedSince, updateCalls>>
    /\ UNCHANGED stagedIsLatest

\* the request is answered: a redirect, or props with which Settings renders
getServerSideProps ==
    /\ response = <<>>
    /\ IF useAuth(session).redirectDestination # <<>>
       THEN /\ response' = <<[redirect |-> <<[destination |-> useAuth(session).redirectDestination[1],
                                              permanent |-> FALSE]>>,
                              props |-> <<>>]>>
            /\ UNCHANGED <<user, formValues>>
       ELSE /\ response' = <<[redirect |-> <<>>,
                              props |-> <<[user |-> useAuth(session).user[1]]>>]>>
            /\ user' = useAuth(session).user[1]
            /\ formValues' = defaultValues(user')
    /\ UNCHANGED <<session, errors, isSubmitting, submitCount, selectedFile, runs,
                   selectedSince, updateCalls>>
    /\ UNCHANGED stagedIsLatest

----------------------------------------------------------------------------
(* Editing the registered fields (reValidateMode onChange after a submit) *)

editName(n) ==
    /\ rendered
    /\ ~inputsDisabled
    /\ formValues' = [formValues EXCEPT !.name = n]
    /\ errors' = IF isSubmitted
                 THEN [errors EXCEPT !.name = resolver(formValues').name]
                 ELSE errors
    /\ UNCHANGED <<session, response, user, isSubmitting, submitCount, selectedFile, runs,
                   selectedSince, updateCalls>>
    /\ UNCHANGED stagedIsLatest

editDescription(d) ==
    /\ rendered
    /\ ~inputsDisabled
    /\ formValues' = [formValues EXCEPT !.description = d]
    /\ errors' = IF isSubmitted
                 THEN [errors EXCEPT !.description = resolver(formValues').description]
                 ELSE errors
    /\ UNCHANGED <<session, response, user, isSubmitting, submitCount, selectedFile, runs,
                   selectedSince, updateCalls>>
    /\ UNCHANGED stagedIsLatest

----------------------------------------------------------------------------
(* File selection *)

overSizeLimit_intDiv(size) == size \div KB > SizeLimitKB

\* file.size / 1024 > 5120 in floating point: the quotient is exact
overSizeLimit(size) ==
    \/ size \div KB > SizeLimitKB
    \/ size \div KB = SizeLimitKB /\ size % KB > 0

\* as handleFileSelect, with the ticket requested as soon as a file is accepted
handleFileSelect_eagerUpload(ev) ==
    /\ rendered
    /\ ~inputsDisabled
    /\ IF ev # <<>> /\ ev[1].size # 0
       THEN IF indexOf(ev[1].type, ImageWord) = -1
            THEN /\ errors' = [errors EXCEPT !.image = <<"Only images are allowed.">>]
                 /\ UNCHANGED <<selectedFile, runs>>
            ELSE IF overSizeLimit(ev[1].size)
            THEN /\ errors' = [errors EXCEPT !.image = <<"Maximum file size is 5MB.">>]
                 /\ UNCHANGED <<selectedFile, runs>>
            ELSE /\ errors' = [errors EXCEPT !.image = NoError]
                 /\ selectedFile' = ev
                 /\ runs' = [q \in DOMAIN runs |->
                               [runs[q] EXCEPT !.calls =
                                   Append(@, [call |-> "ticket", ev |-> "issue", arg |-> <<>>])]]
       ELSE /\ errors' = [errors EXCEPT !.image = NoError]
            /\ UNCHANGED <<selectedFile, runs>>
    /\ selectedSince' = TRUE
    /\ stagedIsLatest' = (selectedFile' = ev)
    /\ UNCHANGED <<session, response, user, formValues, isSubmitting, submitCount,
                   updateCalls>>

handleFileSelect(ev) ==
    /\ rendered
    /\ ~inputsDisabled
    /\ IF ev # <<>> /\ ev[1].size # 0
       THEN IF indexOf(ev[1].type, ImageWord) = -1
            THEN /\ errors' = [errors EXCEPT !.image = <<"Only images are allowed.">>]
                 /\ UNCHANGED selectedFile
            ELSE IF overSizeLimit(ev[1].size)
            THEN /\ errors' = [errors EXCEPT !.image = <<"Maximum file size is 5MB.">>]
                 /\ UNCHANGED selectedFile
            ELSE /\ errors' = [errors EXCEPT !.image = NoError]
                 /\ selectedFile' = ev
       ELSE /\ errors' = [errors EXCEPT !.image = NoError]
            /\ UNCHANGED selectedFile
    /\ selectedSince' = TRUE
    /\ stagedIsLatest' = (selectedFile' = ev)
    /\ UNCHANGED <<session, response, user, formValues, isSubmitting, submitCount,
                   runs, updateCalls>>

----------------------------------------------------------------------------
(* Submission: handleSubmit(onSubmit) and the awaited steps of onSubmit *)

activeRuns == {r \in DOMAIN runs : runs[r].pc # "done"}

derivedImage_noSlash(key) == NEXT_PUBLIC_BUCKET_URL \o key

\* `${env.NEXT_PUBLIC_BUCKET_URL}/${key}`
derivedImage(key) == NEXT_PUBLIC_BUCKET_URL \o <<"/">> \o key

updatePayload_noFlag(data) ==
    [name |-> data.name, description |-> data.description,
     image |-> data.image, setupCompleted |-> FALSE]

\* { ...data, setupCompleted: true }
updatePayload(data) ==
    [name |-> data.name, description |-> data.description,
     image |-> data.image, setupCompleted |-> TRUE]

\* the fetch() that writes the staged file
putRequest(url, file) ==
    [url |-> url, method |-> "PUT", contentType |-> file.type, body |-> file]

issue(call, arg) == [call |-> call, ev |-> "issue", arg |-> arg]
settle(call, ev, arg) == [call |-> call, ev |-> ev, arg |-> arg]

\* the finally block of handleSubmit once onSubmit has returned; run r is
\* then the last one that returned
submitFinally(r, run) ==
    /\ isSubmitting' = FALSE
    /\ submitCount' = submitCount + 1
    /\ runs' = [q \in (activeRuns \cup {r}) |-> IF q = r THEN run ELSE runs[q]]

\* as uploadCatch, without the return: onSubmit goes on to the update call
uploadCatch_noReturn(r, call) ==
    /\ errors' = [errors EXCEPT !.image = <<"">>]
    /\ runs' = [runs EXCEPT
           ![r].calls = @ \o <<settle(call, "reject", <<>>),
                               issue("update", updatePayload(runs[r].data))>>,
           ![r].toasts = Append(@, [kind |-> "error", text |-> "Couldn't upload your file."]),
           ![r].pc = "update"]
    /\ updateCalls' = updateCalls + 1
    /\ UNCHANGED <<session, response, user, formValues, selectedFile, selectedSince,
                   isSubmitting, submitCount, stagedIsLatest>>

\* the catch block around the upload handshake
uploadCatch(r, call) ==
    /\ errors' = [errors EXCEPT !.image = <<"">>]
    /\ submitFinally(r, [runs[r] EXCEPT
           !.calls = Append(@, settle(call, "reject", <<>>)),
           !.toasts = Append(@, [kind |-> "error", text |-> "Couldn't upload your file."]),
           !.pc = "done", !.outcome = "uploadFailed"])
    /\ UNCHANGED <<session, response, user, formValues, selectedFile, selectedSince,
                   updateCalls>>
    /\ UNCHANGED stagedIsLatest

\* onSubmit up to its first await
onSubmit(data) ==
    LET r == submitCount + Cardinality(activeRuns) + 1
        run == [click |-> r, values |-> data, data |-> data, file |-> selectedFile,
                newFile |-> selectedSince, latest |-> stagedIsLatest,
                ticket |-> <<>>, outcome |-> "pending", toasts |-> <<>>,
                pc |-> IF selectedFile # <<>> THEN "ticket" ELSE "update",
                calls |-> IF selectedFile # <<>>
                          THEN <<issue("ticket", <<>>)>>
                          ELSE <<issue("update", updatePayload(data))>>]
    IN /\ runs' = [q \in (DOMAIN runs \cup {r}) |-> IF q = r THEN run ELSE runs[q]]
       /\ updateCalls' = IF selectedFile # <<>> THEN updateCalls ELSE updateCalls + 1

\* as handleSubmit, with onSubmit called whatever the resolver found
handleSubmit_noValidation ==
    /\ rendered
    /\ ~submitDisabled
    /\ submitCount + Cardinality(activeRuns) < MaxSubmits
    /\ errors' = NoErrors
    /\ isSubmitting' = TRUE
    /\ onSubmit(formValues)
    /\ selectedSince' = FALSE
    /\ UNCHANGED <<session, response, user, formValues, selectedFile, submitCount>>
    /\ UNCHANGED stagedIsLatest

\* a click on the submit input
handleSubmit ==
    /\ rendered
    /\ ~submitDisabled
    /\ submitCount + Cardinality(activeRuns) < MaxSubmits
    /\ IF resolver(formValues) = NoErrors
       THEN /\ errors' = NoErrors
            /\ isSubmitting' = TRUE
            /\ onSubmit(formValues)
            /\ selectedSince' = FALSE
            /\ UNCHANGED submitCount
       ELSE /\ errors' = resolver(formValues)
            /\ isSubmitting' = FALSE
            /\ submitCount' = submitCount + 1
            /\ UNCHANGED <<runs, selectedSince, updateCalls>>
    /\ UNCHANGED <<session, response, user, formValues, selectedFile>>
    /\ UNCHANGED stagedIsLatest

\* as ticketResolve, with the fetch() not awaited
ticketResolve_noAwait(r, t) ==
    /\ r \in DOMAIN runs /\ runs[r].pc = "ticket"
    /\ LET data == [runs[r].data EXCEPT !.image = derivedImage(t.key)]
       IN runs' = [runs EXCEPT
              ![r].calls = @ \o <<settle("ticket", "resolve", t),
                                  issue("put", putRequest(t.url, runs[r].file[1])),
                                  issue("update", updatePayload(data))>>,
              ![r].pc = "update", ![r].ticket = <<t>>, ![r].data = data]
    /\ updateCalls' = updateCalls + 1
    /\ UNCHANGED <<session, response, user, formValues, errors, isSubmitting, submitCount,
                   selectedFile, selectedSince>>
    /\ UNCHANGED stagedIsLatest

\* getPresignedUrl() resolves with {url, key}; the PUT is issued
ticketResolve(r, t) ==
    /\ r \in DOMAIN runs /\ runs[r].pc = "ticket"
    /\ runs' = [runs EXCEPT
           ![r].calls = @ \o <<settle("ticket", "resolve", t),
                               issue("put", putRequest(t.url, runs[r].file[1]))>>,
           ![r].pc = "put", ![r].ticket = <<t>>]
    /\ UNCHANGED <<session, response, user, formValues, errors, isSubmitting, submitCount,
                   selectedFile, selectedSince, updateCalls>>
    /\ UNCHANGED stagedIsLatest

\* getPresignedUrl() rejects
ticketReject(r) ==
    /\ r \in DOMAIN runs /\ runs[r].pc = "ticket"
    /\ uploadCatch(r, "ticket")

\* fetch() resolves with a Response; data.image is rewritten, updateUser is called
putResolve(r, resp) ==
    /\ r \in DOMAIN runs /\ runs[r].pc = "put"
    /\ LET data == [runs[r].data EXCEPT !.image = derivedImage(runs[r].ticket[1].key)]
       IN runs' = [runs EXCEPT
              ![r].calls = @ \o <<settle("put", "resolve", resp),
                                  issue("update", updatePayload(data))>>,
              ![r].pc = "update", ![r].data = data]
    /\ updateCalls' = updateCalls + 1
    /\ UNCHANGED <<session, response, user, formValues, errors, isSubmitting, submitCount,
                   selectedFile, selectedSince>>
    /\ UNCHANGED stagedIsLatest

\* as putReject, with the fetch() outside the try block's reach
putReject_swallowed(r) ==
    /\ r \in DOMAIN runs /\ runs[r].pc = "put"
    /\ LET data == [runs[r].data EXCEPT !.image = derivedImage(runs[r].ticket[1].key)]
       IN runs' = [runs EXCEPT
              ![r].calls = @ \o <<settle("put", "reject", <<>>),
                                  issue("update", updatePayload(data))>>,
              ![r].pc = "update", ![r].data = data]
    /\ updateCalls' = updateCalls + 1
    /\ UNCHANGED <<session, response, user, formValues, errors, isSubmitting, submitCount,
                   selectedFile, selectedSince>>
    /\ UNCHANGED stagedIsLatest

\* fetch() rejects (network error)
putReject(r) ==
    /\ r \in DOMAIN runs /\ runs[r].pc = "put"
    /\ uploadCatch(r, "put")

\* updateUser() resolves
updateResolve(r) ==
    /\ r \in DOMAIN runs /\ runs[r].pc = "update"
    /\ submitFinally(r, [runs[r] EXCEPT
           !.calls = Append(@, settle("update", "resolve", <<>>)),
           !.toasts = Append(@, [kind |-> "success", text |-> "Account settings saved!"]),
           !.pc = "done", !.outcome = "saved"])
    /\ UNCHANGED <<session, response, user, formValues, errors, selectedFile,
                   selectedSince, updateCalls>>
    /\ UNCHANGED stagedIsLatest

\* as updateReject, with the submitting flag left set
updateReject_stuck(r) ==
    /\ r \in DOMAIN runs /\ runs[r].pc = "update"
    /\ submitCount' = submitCount + 1
    /\ runs' = [q \in (activeRuns \cup {r}) |->
                  IF q = r
                  THEN [runs[r] EXCEPT
                          !.calls = Append(@, settle("update", "reject", <<>>)),
                          !.toasts = Append(@, [kind |-> "error",
                                                text |-> "Something went wrong!"]),
                          !.pc = "done", !.outcome = "updateFailed"]
                  ELSE runs[q]]
    /\ UNCHANGED <<session, response, user, formValues, errors, isSubmitting,
                   selectedFile, selectedSince, updateCalls>>
    /\ UNCHANGED stagedIsLatest

\* as updateReject, with the call tried again after a rejection
updateReject_retry(r) ==
    /\ r \in DOMAIN runs /\ runs[r].pc = "update"
    /\ updateCalls < MaxSubmits + 1
    /\ runs' = [runs EXCEPT
           ![r].calls = @ \o <<settle("update", "reject", <<>>),
                               issue("update", updatePayload(runs[r].data))>>]
    /\ updateCalls' = updateCalls + 1
    /\ UNCHANGED <<session, response, user, formValues, errors, isSubmitting, submitCount,
                   selectedFile, selectedSince>>
    /\ UNCHANGED stagedIsLatest

\* updateUser() rejects
updateReject(r) ==
    /\ r \in DOMAIN runs /\ runs[r].pc = "update"
    /\ submitFinally(r, [runs[r] EXCEPT
           !.calls = Append(@, settle("update", "reject", <<>>)),
           !.toasts = Append(@, [kind |-> "error", text |-> "Something went wrong!"]),
           !.pc = "done", !.outcome = "updateFailed"])
    /\ UNCHANGED <<session, response, user, formValues, errors, selectedFile,
                   selectedSince, updateCalls>>
    /\ UNCHANGED stagedIsLatest

----------------------------------------------------------------------------

Next ==
    \/ getServerSideProps
    \/ \E n \in Names : editName(n)
    \/ \E d \in Descriptions : editDescription(d)
    \/ \E ev \in FileEvents : handleFileSelect(ev)
    \/ handleSubmit
    \/ \E r \in DOMAIN runs, t \in Tickets : ticketResolve(r, t)
    \/ \E r \in DOMAIN runs : ticketReject(r)
    \/ \E r \in DOMAIN runs, resp \in Responses : putResolve(r, resp)
    \/ \E r \in DOMAIN runs : putReject(r)
    \/ \E r \in DOMAIN runs : updateResolve(r)
    \/ \E r \in DOMAIN runs : updateReject(r)

Spec == Init /\ [][Next]_vars

\* a pending network call of some run settles and onSubmit continues
NetworkSettles ==
    \/ \E r \in DOMAIN runs, t \in Tickets : ticketResolve(r, t)
    \/ \E r \in DOMAIN runs : ticketReject(r)
    \/ \E r \in DOMAIN runs, resp \in Responses : putResolve(r, resp)
    \/ \E r \in DOMAIN runs : putReject(r)
    \/ \E r \in DOMAIN runs : updateResolve(r)
    \/ \E r \in DOMAIN runs : updateReject(r)

\* every network call settles, and the event loop then resumes onSubmit
FairSpec == Spec /\ WF_vars(NetworkSettles)

----------------------------------------------------------------------------
(* Observations on a run's call log *)

Settled == {"resolve", "reject"}

Issued(run, call) ==
    \E i \in 1..Len(run.calls) : run.calls[i].call = call /\ run.calls[i].ev = "issue"

Rejected(run, call) ==
    \E i \in 1..Len(run.calls) : run.calls[i].call = call /\ run.calls[i].ev = "reject"

Resolved(run, call) ==
    \E i \in 1..Len(run.calls) : run.calls[i].call = call /\ run.calls[i].ev = "resolve"

\* the payloads a run has sent to the update endpoint
PayloadsOf(run) ==
    {run.calls[i].arg : i \in {j \in 1..Len(run.calls) :
        run.calls[j].call = "update" /\ run.calls[j].ev = "issue"}}

\* the keys of the tickets a run has received
KeysOf(run) ==
    {run.calls[i].arg.key : i \in {j \in 1..Len(run.calls) :
        run.calls[j].call = "ticket" /\ run.calls[j].ev = "resolve"}}

UploadToast == [kind |-> "error", text |-> "Couldn't upload your file."]
SavedToast == [kind |-> "success", text |-> "Account settings saved!"]

HasToast(run, toast) == \E i \in 1..Len(run.toasts) : run.toasts[i] = toast

\* run r is the last click, it has returned, and nothing was selected since
JustReturned(r) ==
    r \in DOMAIN runs /\ r = submitCount /\ activeRuns = {} /\ ~selectedSince

----------------------------------------------------------------------------
(* Claims *)

C2_ReenabledAfterTicketReject ==
    [][(\E r \in DOMAIN runs : ticketReject(r)) => ~submitDisabled']_vars

\* C3: the image of every payload sent to the update endpoint is the page's
\* input user.image or <bucket-base>/<key> with the key of a ticket received
\* in that same submission, and is never the name of a local file.
C3_PayloadImage ==
    \A r \in DOMAIN runs : \A p \in PayloadsOf(runs[r]) :
        /\ \/ p.image = user.image
           \/ \E k \in KeysOf(runs[r]) : p.image = NEXT_PUBLIC_BUCKET_URL \o <<"/">> \o k
        /\ \A f \in Files : p.image # f.name

C3_Witness ==
    \E p \in DOMAIN runs, c \in DOMAIN runs :
        /\ p < c
        /\ \E k \in KeysOf(runs[p]) : k \notin KeysOf(runs[c])
        /\ \E pl \in PayloadsOf(runs[c]) : pl.image # user.image

\* C4: a submission of the same form data as the submission before it, with
\* no file selected in between, makes no upload request and sends the same
\* update payload as the one before.
C4_ResubmitSamePayload ==
    \A p \in DOMAIN runs, c \in DOMAIN runs :
        (p < c /\ runs[c].values = runs[p].values /\ ~runs[c].newFile)
        => /\ ~Issued(runs[c], "ticket") /\ ~Issued(runs[c], "put")
           /\ \A x \in PayloadsOf(runs[p]), y \in PayloadsOf(runs[c]) : x = y

\* C5: while a run of onSubmit is outstanding the submit input is disabled,
\* and at most one run is outstanding at any time.
C5_OneOutstanding ==
    /\ Cardinality(activeRuns) <= 1
    /\ activeRuns # {} => submitDisabled

C5_Witness ==
    /\ \E r \in activeRuns : runs[r].pc = "put"
    /\ ~thereAreErrors
    /\ submitDisabled

\* C6: once validation has run (a submit click was made), the name error is
\* "Username is required." for length 0, "Username must be 13 characters or
\* less." for length above 13, and absent for lengths 1 to 13.
C6_NameValidation ==
    (submitCount > 0 \/ isSubmitting)
    => errors.name =
         IF Len(formValues.name) = 0 THEN <<"Username is required.">>
         ELSE IF Len(formValues.name) > 13
              THEN <<"Username must be 13 characters or less.">>
              ELSE <<>>

C6_Witness ==
    /\ submitCount > 0
    /\ Len(formValues.name) > 13
    /\ errors.name = <<"Username must be 13 characters or less.">>

\* C7: every file-selection event whose file has a MIME type without "image"
\* sets the image error "Only images are allowed." and leaves that file
\* unstaged.
C7_NonImageRejected ==
    [][\A ev \in FileEvents :
         (ev # <<>> /\ indexOf(ev[1].type, ImageWord) = -1 /\ handleFileSelect(ev))
         => (errors'.image = <<"Only images are allowed.">> /\ selectedFile' # ev)]_vars

\* C8 as stated: every file-selection event whose file is larger than
\* 5120*1024 bytes sets the image error "Maximum file size is 5MB.".
C8_LargeRejected ==
    [][\A ev \in FileEvents :
         (ev # <<>> /\ ev[1].size > 5120 * 1024 /\ handleFileSelect(ev))
         => errors'.image = <<"Maximum file size is 5MB.">>]_vars

\* C8 amended: every file-selection event whose file has a MIME type
\* containing "image" and is larger than 5120*1024 bytes sets the image
\* error "Maximum file size is 5MB." and leaves the staged file as it was; a
\* file of at most 5120*1024 bytes never gets that error.
C8_LargeImageRejected ==
    [][\A ev \in FileEvents :
         (ev # <<>> /\ handleFileSelect(ev))
         => /\ (indexOf(ev[1].type, ImageWord) # -1 /\ ev[1].size > 5120 * 1024)
               => (errors'.image = <<"Maximum file size is 5MB.">>
                   /\ selectedFile' = selectedFile)
            /\ ev[1].size <= 5120 * 1024
               => errors'.image # <<"Maximum file size is 5MB.">>]_vars

C8_Witness ==
    /\ errors.image = <<"Maximum file size is 5MB.">>
    /\ selectedFile # <<>>

\* C9: a run of onSubmit with no staged file issues no ticket request and no
\* PUT; its only call is the update, with exactly the submitted name and
\* description, the existing image and setupCompleted = TRUE; once that call
\* has resolved, the success notification is the one notification shown.
C9_NoFileSubmission ==
    \A r \in DOMAIN runs :
        runs[r].file = <<>>
        => /\ ~Issued(runs[r], "ticket") /\ ~Issued(runs[r], "put")
           /\ runs[r].calls[1] =
                [call |-> "update", ev |-> "issue",
                 arg |-> [name |-> runs[r].values.name,
                          description |-> runs[r].values.description,
                          image |-> user.image,
                          setupCompleted |-> TRUE]]
           /\ Resolved(runs[r], "update") => runs[r].toasts = <<SavedToast>>
           /\ Len(runs[r].calls) <= 2

C9_Witness ==
    \E r \in DOMAIN runs :
        /\ runs[r].file = <<>>
        /\ runs[r].values.name = Alice /\ runs[r].values.description = Hi
        /\ Resolved(runs[r], "update")
        /\ runs[r].toasts = <<SavedToast>>

\* C10: in a run of onSubmit with a staged file the calls happen one at a
\* time in this order: the ticket request; after it resolved with {url, key},
\* a PUT to that url with Content-Type equal to the staged file's MIME type
\* and the staged file as body; after the PUT resolved, the update call with
\* image = <bucket-base>/<key>.  Each call is settled before the next one is
\* issued.
C10_HandshakeOrder ==
    \A r \in DOMAIN runs :
        runs[r].file # <<>>
        => LET c == runs[r].calls
           IN /\ c[1] = [call |-> "ticket", ev |-> "issue", arg |-> <<>>]
              /\ \A i \in 1..Len(c) :
                   /\ (c[i].ev = "issue" /\ i < Len(c))
                      => (c[i + 1].call = c[i].call /\ c[i + 1].ev \in Settled)
                   /\ (c[i].ev = "issue" /\ c[i].call = "put")
                      => /\ i = 3
                         /\ c[2].call = "ticket" /\ c[2].ev = "resolve"
                         /\ c[i].arg = [url |-> c[2].arg.url, method |-> "PUT",
                                        contentType |-> runs[r].file[1].type,
                                        body |-> runs[r].file[1]]
                   /\ (c[i].ev = "issue" /\ c[i].call = "update")
                      => /\ i = 5
                         /\ c[4].call = "put" /\ c[4].ev = "resolve"
                         /\ c[i].arg.image =
                              NEXT_PUBLIC_BUCKET_URL \o <<"/">> \o c[2].arg.key
                   /\ (c[i].ev = "issue" /\ c[i].call = "ticket") => i = 1

C10_Witness ==
    \E r \in DOMAIN runs :
        /\ runs[r].file # <<>>
        /\ runs[r].file[1].type = ImageJpeg
        /\ Len(runs[r].calls) = 6
        /\ runs[r].calls[3].arg.contentType = ImageJpeg
        /\ runs[r].calls[6] = [call |-> "update", ev |-> "resolve", arg |-> <<>>]

\* C11: a request without a session is answered with a non-permanent
\* redirect to the destination the auth helper gave and with no props; the
\* page is not rendered and no user record is passed to it.
C11_UnauthenticatedRedirect ==
    (session = <<>> /\ response # <<>>)
    => /\ response[1].redirect = <<[destination |-> useAuth(session).redirectDestination[1],
                                    permanent |-> FALSE]>>
       /\ response[1].props = <<>>
       /\ user = <<>>
       /\ formValues = <<>>
       /\ runs = <<>>

C11_Witness ==
    /\ session = <<>>
    /\ response # <<>>
    /\ response[1].redirect # <<>>

GenericToast == [kind |-> "error", text |-> "Something went wrong!"]

\* the positions in a run's log where the update call is issued
UpdateIssues(run) ==
    {i \in 1..Len(run.calls) : run.calls[i].call = "update" /\ run.calls[i].ev = "issue"}

\* C12: a run of onSubmit calls the update endpoint at most once; when that
\* call rejects, the run ends there with the generic failure notification
\* as its only notification; the number of update calls made so far never
\* exceeds the number of submit clicks made so far.
C12_SingleUpdateAttempt ==
    /\ updateCalls <= submitCount + Cardinality(activeRuns)
    /\ \A r \in DOMAIN runs :
         /\ Cardinality(UpdateIssues(runs[r])) <= 1
         /\ Rejected(runs[r], "update")
            => /\ runs[r].pc = "done"
               /\ runs[r].calls[Len(runs[r].calls)] =
                    [call |-> "update", ev |-> "reject", arg |-> <<>>]
               /\ runs[r].toasts = <<GenericToast>>

C12_Witness ==
    /\ updateCalls = submitCount
    /\ \E r \in DOMAIN runs :
         /\ Rejected(runs[r], "update")
         /\ runs[r].toasts = <<GenericToast>>
         /\ JustReturned(r)

\* C13: every run of onSubmit was started with values that pass the schema,
\* and every payload sent to the update endpoint has a name of 1 to 13
\* characters and an image that is an absolute URL.
C13_ValidatedPayloads ==
    \A r \in DOMAIN runs :
        /\ Len(runs[r].values.name) \in 1..13
        /\ Len(runs[r].values.image) >= 2
        /\ runs[r].values.image[1] \in {"https:", "http:"}
        /\ \A p \in PayloadsOf(runs[r]) :
             /\ Len(p.name) \in 1..13
             /\ Len(p.image) >= 2
             /\ p.image[1] \in {"https:", "http:"}

C13_Witness ==
    \E r \in DOMAIN runs : \E p \in PayloadsOf(runs[r]) :
        /\ Len(p.name) = 13
        /\ p.image # user.image
        /\ submitCount > 1

\* C14: a file-selection event issues no network request: it leaves the
\* runs, the update-call count, the form values and the submitting flag as
\* they were and touches no error but the image error; a network call is
\* issued or settled only in a step that starts or continues a submission.
C14_SelectionIssuesNoRequest ==
    [][/\ (\E ev \in FileEvents : handleFileSelect(ev))
          => /\ runs' = runs
             /\ updateCalls' = updateCalls
             /\ formValues' = formValues
             /\ isSubmitting' = isSubmitting
             /\ errors'.name = errors.name
             /\ errors'.description = errors.description
       /\ (runs' # runs \/ updateCalls' # updateCalls)
          => (isSubmitting \/ isSubmitting')]_vars

C14_Witness ==
    /\ selectedFile # <<>>
    /\ selectedSince
    /\ errors.image = <<>>
    /\ \E r \in DOMAIN runs : runs[r].pc = "done" /\ runs[r].file = <<>>

\* the last entry of a run's log is a call that has not settled
Pending(run) == run.calls[Len(run.calls)].ev = "issue"

\* C15: when every network call settles, a form that is submitting
\* eventually stops submitting, whichever way the calls settle; and the form
\* is submitting only while a call of a run in progress has not settled.
C15_SubmittingEnds ==
    /\ [](isSubmitting => \E r \in DOMAIN runs : runs[r].pc # "done" /\ Pending(runs[r]))
    /\ []((\A r \in DOMAIN runs : runs[r].pc = "done") => ~isSubmitting)
    /\ (isSubmitting ~> ~isSubmitting)

C15_Witness ==
    /\ ~isSubmitting
    /\ \E r \in DOMAIN runs :
         /\ runs[r].outcome = "updateFailed"
         /\ runs[r].file # <<>>
         /\ JustReturned(r)

\* C16: the submit input is disabled exactly when a submission is in flight
\* or the name, description or image field has an error; no submit click is
\* handled in such a state; and an image error, once set, goes away only in
\* a file-selection event.
C16_ErrorsBlockSubmit ==
    /\ [](submitDisabled <=> (\/ isSubmitting
                              \/ errors.name # <<>>
                              \/ errors.description # <<>>
                              \/ errors.image # <<>>))
    /\ [][/\ handleSubmit
             => (/\ ~isSubmitting
                 /\ errors.name = <<>>
                 /\ errors.description = <<>>
                 /\ errors.image = <<>>)
          /\ (errors.image # <<>> /\ errors'.image = <<>>)
             => \E ev \in FileEvents : handleFileSelect(ev)]_vars

C16_Witness ==
    /\ errors.image = <<"">>
    /\ ~isSubmitting
    /\ submitDisabled
    /\ formValues.name # user.name
    /\ \E r \in DOMAIN runs : runs[r].outcome = "uploadFailed"

\* C17: the file a submission uploads is the file carried by the most
\* recent file-selection event before the click; after an event that was
\* rejected or carried no file or an empty file, no earlier file is uploaded.
C17_UploadsLatestSelection ==
    \A r \in DOMAIN runs :
        Issued(runs[r], "put") => runs[r].latest

\* C18: the update endpoint is called with a derived image only after the
\* PUT of that submission was answered with a successful response.
C18_UpdateOnlyAfterStoredFile ==
    \A r \in DOMAIN runs :
        (runs[r].file # <<>> /\ Issued(runs[r], "update"))
        => \E i \in 1..Len(runs[r].calls) :
              /\ runs[r].calls[i].call = "put"
              /\ runs[r].calls[i].ev = "resolve"
              /\ runs[r].calls[i].arg.ok

====
